---------------------------- MODULE Spec2Model ----------------------------
(***************************************************************************)
(* Solio crowdfunding backend: wallet challenge-response authentication,   *)
(* donation verification and recording, and the payout engine.             *)
(*                                                                         *)
(* The database is modelled as the committed rows; every request handler   *)
(* works on the values its SQLAlchemy session loaded (its snapshot) and    *)
(* writes them back at flush/commit.  A handler is cut into steps exactly  *)
(* where it reads the database, calls the ledger RPC, or commits.          *)
(***************************************************************************)
EXTENDS Integers, Sequences, FiniteSets, TLC

(***************************************************************************)
(* Bounds of the model                                                     *)
(***************************************************************************)
MaxTime == 20          \* the clock runs from 0 to MaxTime (minutes)
MaxNonces == 2         \* challenges issued in a run
MaxVerify == 2
MaxPayouts == 3         \* wallet_verify requests started in a run

(***************************************************************************)
(* Program constants                                                       *)
(***************************************************************************)
WALLET_NONCE_EXPIRY_MINUTES == 10
PLATFORM_FEE_PERMILLE == 25            \* PLATFORM_FEE_PERCENT = 2.5
PLATFORM_WALLET_ADDRESS == "platform"
PLATFORM_WALLET_SECRET == "secret"

\* Amounts are integers in units of 10^-7 SOL (Numeric(18, 9) holds them).
SOL == 10 ^ 7
LAMPORTS_PER_SOL == 10 ^ 9             \* Decimal('1000000000')
tolerance_half == SOL \div 2000000     \* a tolerance of 0.0000005
tolerance == SOL \div 1000000           \* Decimal('0.000001')
MIN_PAYOUT_tenth == SOL \div 10000      \* a threshold of 0.0001
MIN_PAYOUT == SOL \div 1000             \* Decimal('0.001')

Wallets == {"walletA", "walletB"}
AuthProcs == {"a1", "a2"}              \* gunicorn workers serving auth requests
Tokens == 1..MaxNonces                 \* values a client may submit as nonce
TickMinutes == WALLET_NONCE_EXPIRY_MINUTES         \* granularity of the clock
None == "None"
NoTier == 0                            \* reward_tier_id absent (falsy)
NoLimit == 0 - 1                       \* max_claims IS NULL
NoTime == 0 - 1                        \* a DateTime column that IS NULL

VARIABLES
    now,            \* datetime.utcnow()
    wallet_nonces,  \* table wallet_nonces: committed rows
    next_token,     \* number of tokens drawn so far (secrets.token_hex is fresh)
    users,          \* wallet addresses that have a User row
    areq,           \* per auth worker: the request it is serving
    aresp,          \* per auth worker: the last response it returned
    logins,         \* sequence of login_user() calls, with what the check saw
    issued,         \* history: token -> the wallet it was issued for
    nverify,        \* wallet_verify requests started
    projects,       \* table projects: committed rows
    creator_wallet, \* users.wallet_address of each project's creator
    donations,      \* table donations: committed rows
    reward_tiers,   \* table reward_tiers: committed rows
    milestones,     \* table milestones: committed rows
    payouts,        \* table payouts: committed rows, in insertion order
    transfers,      \* ledger: payout transfers it accepted, per project
    dreq,           \* per donation worker: the verify_donation request it serves
    dresp,          \* per donation worker: the last response it returned
    applied,        \* history: commits that added a signature's amount to raised_sol
    preq,           \* per payout worker: the sweep or retry it runs
    presp,          \* per payout worker: what its last call returned
    vt              \* a verify_transaction call: arguments, loop state, result

authVars == <<wallet_nonces, next_token, users, areq, aresp, logins, issued, nverify>>
dbVars == <<projects, creator_wallet, donations, reward_tiers, milestones, payouts,
            transfers>>
donVars == <<dreq, dresp, applied>>
payVars == <<preq, presp>>
vars == <<now, authVars, dbVars, donVars, payVars, vt>>

(***************************************************************************)
(* WalletNonce model                                                       *)
(***************************************************************************)
\* WalletNonce.generate: a fresh token, expires_at = utcnow() + expiry_minutes
generate(wallet_address, token, expiry_minutes) ==
    [wallet_address |-> wallet_address, nonce |-> token,
     expires_at |-> now + expiry_minutes, used |-> FALSE]

\* WalletNonce.is_valid with the expiry test left out
is_valid_no_expiry(row) == ~row.used

\* WalletNonce.is_valid
is_valid(row) == ~row.used /\ now < row.expires_at

\* WalletNonce.message_to_sign: the template embedding the nonce
message_to_sign(nonce) ==
    <<"Sign this message to authenticate with Solio.", "Nonce:", nonce>>

\* WalletNonce.mark_used
mark_used(row) == [row EXCEPT !.used = TRUE]

\* An Ed25519 signature is determined by the signing key and the message.
Signatures == [signer : Wallets, msg : {message_to_sign(n) : n \in Tokens}]

\* verify_wallet_signature: VerifyKey(wallet_address).verify(message, signature)
verify_wallet_signature(wallet_address, message, signature) ==
    signature.signer = wallet_address /\ signature.msg = message

IdleAuth == [pc |-> "idle", wallet_address |-> None, nonce |-> 0,
             signature |-> None, stale |-> {}, seen |-> None]

(***************************************************************************)
(* POST /wallet/nonce                                                      *)
(***************************************************************************)
\* lines 339-345: the bulk DELETE of this wallet's rows, inside the
\* request's transaction (it takes effect for others at commit)
wallet_nonce_delete(a, w) ==
    /\ areq[a].pc = "idle"
    /\ next_token + Cardinality({b \in AuthProcs : areq[b].pc = "nonce_deleted"})
            < MaxNonces
    /\ areq' = [areq EXCEPT ![a] =
            [IdleAuth EXCEPT !.pc = "nonce_deleted", !.wallet_address = w,
                !.stale = {r.nonce : r \in {x \in wallet_nonces :
                                              x.wallet_address = w}}]]
    /\ UNCHANGED <<dbVars, donVars, payVars, vt>>
    /\ UNCHANGED <<now, wallet_nonces, next_token, users, aresp, logins, issued,
                   nverify>>

\* lines 347-358: generate, add, commit
wallet_nonce_commit(a) ==
    /\ areq[a].pc = "nonce_deleted"
    /\ LET row == generate(areq[a].wallet_address, next_token + 1,
                           WALLET_NONCE_EXPIRY_MINUTES)
       IN  /\ wallet_nonces' =
                {r \in wallet_nonces : r.nonce \notin areq[a].stale} \cup {row}
           /\ next_token' = next_token + 1
           /\ issued' = [issued EXCEPT ![row.nonce] = row.wallet_address]
    /\ areq' = [areq EXCEPT ![a] = IdleAuth]
    /\ aresp' = [aresp EXCEPT ![a] = "nonce"]
    /\ UNCHANGED <<dbVars, donVars, payVars, vt>>
    /\ UNCHANGED <<now, users, logins, nverify>>

(***************************************************************************)
(* POST /wallet/verify                                                     *)
(***************************************************************************)
\* lines 377-399: find the nonce row, validate it, verify the signature,
\* mark it used in the session
wallet_verify_check(a, w, n, s) ==
    /\ areq[a].pc = "idle"
    /\ nverify < MaxVerify
    /\ nverify' = nverify + 1
    /\ LET found == {r \in wallet_nonces : r.wallet_address = w /\ r.nonce = n}
       IN  IF found = {} \/ \E r \in found : ~is_valid(r)
           THEN /\ aresp' = [aresp EXCEPT ![a] = "Invalid or expired nonce"]
                /\ UNCHANGED areq
           ELSE LET row == CHOOSE r \in found : TRUE IN
                IF ~verify_wallet_signature(w, message_to_sign(row.nonce), s)
                THEN /\ aresp' = [aresp EXCEPT ![a] = "Invalid signature"]
                     /\ UNCHANGED areq
                ELSE /\ areq' = [areq EXCEPT ![a] =
                            [pc |-> "verify_marked", wallet_address |-> w,
                             nonce |-> n, signature |-> s, stale |-> {},
                             seen |-> [row |-> row, at |-> now]]]
                     /\ UNCHANGED aresp
    /\ UNCHANGED <<dbVars, donVars, payVars, vt>>
    /\ UNCHANGED <<now, wallet_nonces, next_token, users, logins, issued>>

\* lines 401-427: the flush of used = True (an UPDATE by primary key, which
\* raises StaleDataError when the row is gone), find or create the user,
\* commit, login_user
wallet_verify_commit(a) ==
    /\ areq[a].pc = "verify_marked"
    /\ LET rows == {r \in wallet_nonces : r.nonce = areq[a].nonce}
       IN  IF rows = {}
           THEN /\ aresp' = [aresp EXCEPT ![a] = "Authentication failed"]
                /\ UNCHANGED <<wallet_nonces, users, logins>>
           ELSE /\ wallet_nonces' =
                     (wallet_nonces \ rows) \cup {mark_used(r) : r \in rows}
                /\ users' = users \cup {areq[a].wallet_address}
                /\ logins' = Append(logins,
                        [wallet_address |-> areq[a].wallet_address,
                         nonce |-> areq[a].nonce,
                         signature |-> areq[a].signature,
                         seen |-> areq[a].seen.row,
                         checked_at |-> areq[a].seen.at])
                /\ aresp' = [aresp EXCEPT ![a] = "success"]
    /\ areq' = [areq EXCEPT ![a] = IdleAuth]
    /\ UNCHANGED <<dbVars, donVars, payVars, vt>>
    /\ UNCHANGED <<now, next_token, issued, nverify>>

\* WalletNonce.cleanup_expired (scheduler / CLI)
cleanup_expired ==
    /\ \E r \in wallet_nonces : r.expires_at < now
    /\ wallet_nonces' = {r \in wallet_nonces : ~(r.expires_at < now)}
    /\ UNCHANGED <<dbVars, donVars, payVars, vt>>
    /\ UNCHANGED <<now, next_token, users, areq, aresp, logins, issued, nverify>>

\* the wall clock
Tick ==
    /\ now + TickMinutes <= MaxTime
    /\ now' = now + TickMinutes
    /\ UNCHANGED <<vt, authVars, dbVars, donVars, payVars>>

(***************************************************************************)
(* Campaign data                                                           *)
(***************************************************************************)
Projects == {1, 2}
MissingProject == 3                    \* an id no projects row has
TierIds == {1}
MilestoneIds == {1, 2}
TxSignatures == {"sig1", "sig2"}
\* request bodies a client sends: the signature with the amount it claims
\* (sig1 moved 1 SOL, sig2 moved 2 SOL), and the reward tier with the email
DonationClaims == {<<"sig1", 1 * SOL>>, <<"sig2", 2 * SOL>>, <<"sig1", 2 * SOL>>}
RewardChoices == {<<NoTier, None>>, <<1, "donor@mail">>, <<1, None>>}
DonProcs == {"d1", "d2"}               \* gunicorn workers serving /verify
PayProcs == {"p1", "p2"}               \* scheduler instances / admin retries
END_DATE == TickMinutes                \* every campaign's end_date

\* contributions of 5, 6 and 12 units (a unit is a tenth of a SOL): the
\* amount each signature moved
UNIT == SOL \div 10
Contributions ==
    [tx_signature \in {"tx5", "tx6", "tx12"} |->
        IF tx_signature = "tx5" THEN 5 * UNIT
        ELSE IF tx_signature = "tx6" THEN 6 * UNIT ELSE 12 * UNIT]

\* What getTransaction returns for a signature once it is visible: a
\* confirmed system transfer donorA -> platform, the amount in lamports.
ChainTx(tx_signature) ==
    [err |-> None,
     instructions |-> <<
        [program |-> "system", type |-> "transfer", source |-> "donorA",
         destination |-> PLATFORM_WALLET_ADDRESS,
         lamports |->
            IF tx_signature \in DOMAIN Contributions
            THEN Contributions[tx_signature] * (LAMPORTS_PER_SOL \div SOL)
            ELSE IF tx_signature = "sig1" THEN 1 * LAMPORTS_PER_SOL
            ELSE 2 * LAMPORTS_PER_SOL]>>]

abs(x) == IF x < 0 THEN -x ELSE x

\* a scan that gives up after the first instruction
scan_first_only(instructions, expected_recipient, expected_amount_sol, expected_sender) ==
    IF /\ instructions /= <<>>
       /\ Head(instructions).program = "system"
       /\ Head(instructions).type = "transfer"
       /\ Head(instructions).source = expected_sender
       /\ Head(instructions).destination = expected_recipient
       /\ ~(abs(Head(instructions).lamports
                    - expected_amount_sol * (LAMPORTS_PER_SOL \div SOL))
                > tolerance * (LAMPORTS_PER_SOL \div SOL))
    THEN [success |-> TRUE, error |-> None]
    ELSE [success |-> FALSE, error |-> "Transfer not found in transaction"]

\* verify_transaction, lines 129-164: the scan of the instruction list
RECURSIVE scan_instructions(_, _, _, _)
scan_instructions(instructions, expected_recipient, expected_amount_sol, expected_sender) ==
    IF instructions = <<>>
    THEN [success |-> FALSE, error |-> "Transfer not found in transaction"]
    ELSE LET instruction == Head(instructions) IN
         IF /\ instruction.program = "system"
            /\ instruction.type = "transfer"
            /\ instruction.source = expected_sender
            /\ instruction.destination = expected_recipient
            /\ ~(abs(instruction.lamports
                        - expected_amount_sol * (LAMPORTS_PER_SOL \div SOL))
                    > tolerance * (LAMPORTS_PER_SOL \div SOL))
         THEN [success |-> TRUE, error |-> None]
         ELSE scan_instructions(Tail(instructions), expected_recipient,
                                expected_amount_sol, expected_sender)

\* verify_transaction, lines 121-168, on what the poll loop fetched: the
\* set holding the transaction, or the empty set (tx is None) when every
\* poll came back empty
verify_transaction(fetched, expected_recipient, expected_amount_sol, expected_sender) ==
    IF fetched = {}
    THEN [success |-> FALSE,
          error |-> "Transaction not found or not confirmed after retries"]
    ELSE LET tx == CHOOSE t \in fetched : TRUE IN
         IF tx.err /= None
         THEN [success |-> FALSE, error |-> "Transaction failed"]
         ELSE scan_instructions(tx.instructions, expected_recipient,
                                expected_amount_sol, expected_sender)

(***************************************************************************)
(* verify_transaction: the poll loop (lines 97-122)                        *)
(***************************************************************************)
max_retries_more == 10 + 1             \* a loop of eleven polls
max_retries == 10

\* a system-program transfer as getTransaction (jsonParsed) shows it
Transfer(source, destination, lamports) ==
    [program |-> "system", type |-> "transfer", source |-> source,
     destination |-> destination, lamports |-> lamports]

\* instructions a fetched transaction may hold: transfers donorA ->
\* platform of 1 SOL and of amounts around it, transfers between other
\* parties, and instructions that are no system transfer
Instructions ==
    {Transfer("donorA", PLATFORM_WALLET_ADDRESS, LAMPORTS_PER_SOL + d) :
        d \in {0 - 2000, 0 - 1001, 0 - 1000, 0 - 500, 0, 500, 1000, 1001, 2000}}
    \cup {Transfer("donorB", PLATFORM_WALLET_ADDRESS, LAMPORTS_PER_SOL),
          Transfer("donorA", "other", LAMPORTS_PER_SOL),
          [Transfer("donorA", PLATFORM_WALLET_ADDRESS, LAMPORTS_PER_SOL)
                EXCEPT !.program = "spl-token"],
          [Transfer("donorA", PLATFORM_WALLET_ADDRESS, LAMPORTS_PER_SOL)
                EXCEPT !.type = "createAccount"]}

\* transactions the ledger may return: executed with or without error,
\* with up to two instructions
Transactions ==
    [err : {None, "InstructionError"},
     instructions : {<<>>} \cup {<<i>> : i \in Instructions}
                    \cup {<<i, j>> : i, j \in Instructions}]

\* what rpc_request returns: None after a RequestException, a body
\* without 'result', a null result, or the transaction
RpcResults ==
    {[body |-> "None", result |-> {}], [body |-> "error", result |-> {}],
     [body |-> "result", result |-> {}]}
    \cup {[body |-> "result", result |-> {tx}] : tx \in Transactions}

\* line 112: result and 'result' in result and result['result'] is not None
found(result) == result.body = "result" /\ result.result /= {}

\* line 117: attempt < max_retries - 1
more_attempts(attempt) == attempt < max_retries - 1

IdleVt == [pc |-> "idle", attempt |-> 0, polls |-> 0, waits |-> 0,
           last |-> "none", tx |-> {}, expected_amount_sol |-> 0,
           expected_sender |-> None,
           result |-> [success |-> FALSE, error |-> None]]

\* a call of verify_transaction: tx = None, the loop starts
verify_transaction_call(expected_amount_sol, expected_sender) ==
    /\ vt.pc = "idle"
    /\ vt' = [IdleVt EXCEPT !.pc = "poll",
                            !.expected_amount_sol = expected_amount_sol,
                            !.expected_sender = expected_sender]
    /\ UNCHANGED <<now, authVars, dbVars, donVars, payVars>>

\* lines 103-119: one getTransaction request and the test of its result
verify_transaction_poll ==
    /\ vt.pc = "poll"
    /\ \E result \in RpcResults :
        vt' = [vt EXCEPT
                !.polls = @ + 1,
                !.last = "poll",
                !.tx = IF found(result) THEN result.result ELSE @,
                !.pc = IF found(result) THEN "parse"
                       ELSE IF more_attempts(vt.attempt) THEN "sleep"
                       ELSE "parse"]
    /\ UNCHANGED <<now, authVars, dbVars, donVars, payVars>>

\* line 119: time.sleep(retry_delay), then the next turn of the loop
verify_transaction_sleep ==
    /\ vt.pc = "sleep"
    /\ vt' = [vt EXCEPT !.waits = @ + 1, !.last = "sleep",
                        !.attempt = @ + 1, !.pc = "poll"]
    /\ UNCHANGED <<now, authVars, dbVars, donVars, payVars>>

\* lines 121-168: the loop is over, the result is computed and returned
verify_transaction_return ==
    /\ vt.pc = "parse"
    /\ vt' = [vt EXCEPT
                !.pc = "idle",
                !.result = verify_transaction(vt.tx, PLATFORM_WALLET_ADDRESS,
                                              vt.expected_amount_sol,
                                              vt.expected_sender)]
    /\ UNCHANGED <<now, authVars, dbVars, donVars, payVars>>

\* Project.is_active
is_active(project) == project.status = "active" /\ now < project.end_date

\* RewardTier.is_available
is_available(tier) ==
    IF tier.max_claims = NoLimit THEN TRUE ELSE tier.claimed_count < tier.max_claims

\* the projects row a payout worker has written in its open transaction is
\* locked until that worker commits; other writers of the row wait
RowLocked(p) == \E w \in PayProcs : p \in preq[w].locked

IdleDon == [pc |-> "idle", project_id |-> 0, tx_signature |-> None,
            amount_sol |-> 0, donor_wallet |-> None, reward_tier_id |-> NoTier,
            donor_email |-> None, raised_sol |-> 0, claimed_count |-> 0,
            newly_reached_milestones |-> {}]

(***************************************************************************)
(* POST /verify  (verify_donation)                                         *)
(***************************************************************************)
\* a worker returns a response and is free again
DonRespond(d, response) ==
    /\ dresp' = [dresp EXCEPT ![d] = response]
    /\ dreq' = [dreq EXCEPT ![d] = IdleDon]

\* the duplicate check of lines 58-61: a SELECT by tx_signature
existing(tx_signature) == \E x \in donations : x.tx_signature = tx_signature

\* a donations table without the unique index on tx_signature
tx_signature_taken_never(tx_signature) == FALSE

\* Donation.tx_signature, unique=True: the INSERT fails when a committed
\* row already carries the signature
tx_signature_taken(tx_signature) ==
    \E x \in donations : x.tx_signature = tx_signature

\* lines 33-61: load the project, is_active, the duplicate check.  The
\* session keeps the project row as loaded here.
verify_donation_check(d, project_id, tx_signature, amount_sol, donor_wallet, reward_tier_id, donor_email) ==
    /\ dreq[d].pc = "idle"
    /\ LET project == projects[project_id] IN
       IF ~is_active(project)
       THEN DonRespond(d, "Project no longer accepts donations")
       ELSE IF existing(tx_signature)
       THEN DonRespond(d, "Transaction already processed")
       ELSE /\ dreq' = [dreq EXCEPT ![d] =
                    [pc |-> "verifying", project_id |-> project_id,
                     tx_signature |-> tx_signature, amount_sol |-> amount_sol,
                     donor_wallet |-> donor_wallet,
                     reward_tier_id |-> reward_tier_id,
                     donor_email |-> donor_email,
                     raised_sol |-> project.raised_sol, claimed_count |-> 0,
                     newly_reached_milestones |-> {}]]
            /\ UNCHANGED dresp
    /\ UNCHANGED <<now, vt, authVars, dbVars, applied, payVars>>

\* a request that goes on whatever verify_transaction returned
verified_always(verification_result) == TRUE

\* line 73: verification_result['success']
verified(verification_result) == verification_result.success

\* lines 63-89: verify_transaction returns (its poll loop either fetched
\* the transaction or ran out), then the reward tier is loaded and checked
verify_donation_verify(d) ==
    /\ dreq[d].pc = "verifying"
    /\ \E tx \in {{}, {ChainTx(dreq[d].tx_signature)}} :
        LET r == dreq[d]
            verification_result ==
                verify_transaction(tx, PLATFORM_WALLET_ADDRESS, r.amount_sol,
                                   r.donor_wallet)
        IN  IF ~verified(verification_result)
            THEN DonRespond(d, verification_result.error)
            ELSE IF r.reward_tier_id = NoTier
            THEN /\ dreq' = [dreq EXCEPT ![d].pc = "ready"]
                 /\ UNCHANGED dresp
            ELSE LET reward_tier == reward_tiers[r.reward_tier_id] IN
                 IF reward_tier.project_id /= r.project_id
                 THEN DonRespond(d, "Invalid reward tier")
                 ELSE IF ~is_available(reward_tier)
                 THEN DonRespond(d, "This reward tier is sold out")
                 ELSE IF r.amount_sol < reward_tier.min_amount_sol
                 THEN DonRespond(d, "Minimum amount for this reward")
                 ELSE IF r.donor_email = None
                 THEN DonRespond(d, "Email is required for reward delivery")
                 ELSE /\ dreq' = [dreq EXCEPT ![d].pc = "ready",
                              ![d].claimed_count = reward_tier.claimed_count]
                      /\ UNCHANGED dresp
    /\ UNCHANGED <<now, vt, authVars, dbVars, applied, payVars>>

\* a running total that the contribution is not added to
raised_sol_kept(raised_sol, amount_sol) == raised_sol

\* line 112: project.raised_sol = (project.raised_sol or 0) + amount_sol
new_raised_sol(raised_sol, amount_sol) == raised_sol + amount_sol

\* lines 91-123: INSERT the donation, write the tier's and the project's new
\* values as the session computed them, mark milestones and collect the
\* newly reached ones, commit.  An IntegrityError on the unique index
\* leaves the request with a 500 and the transaction rolled back.
verify_donation_commit(d) ==
    /\ dreq[d].pc = "ready"
    /\ ~RowLocked(dreq[d].project_id)
    /\ LET r == dreq[d]
           raised == new_raised_sol(r.raised_sol, r.amount_sol)
       IN  IF tx_signature_taken(r.tx_signature)
           THEN /\ DonRespond(d, "Internal server error")
                /\ UNCHANGED <<dbVars, applied>>
           ELSE /\ donations' = donations \cup
                    {[id |-> Cardinality(donations) + 1,
                      project_id |-> r.project_id,
                      reward_tier_id |-> r.reward_tier_id,
                      amount_sol |-> r.amount_sol,
                      tx_signature |-> r.tx_signature,
                      donor_wallet |-> r.donor_wallet,
                      status |-> "confirmed"]}
                /\ reward_tiers' =
                    IF r.reward_tier_id = NoTier THEN reward_tiers
                    ELSE [reward_tiers EXCEPT
                            ![r.reward_tier_id].claimed_count = r.claimed_count + 1]
                /\ projects' = [projects EXCEPT ![r.project_id].raised_sol = raised]
                /\ milestones' = [m \in MilestoneIds |->
                    IF /\ milestones[m].project_id = r.project_id
                       /\ ~milestones[m].reached
                       /\ raised >= milestones[m].amount_sol
                    THEN [milestones[m] EXCEPT !.reached = TRUE, !.reached_at = now]
                    ELSE milestones[m]]
                /\ applied' = [applied EXCEPT ![r.tx_signature] = @ + 1]
                /\ dreq' = [dreq EXCEPT
                        ![d].pc = "notifying",
                        ![d].newly_reached_milestones =
                            {m \in MilestoneIds :
                                /\ milestones[m].project_id = r.project_id
                                /\ ~milestones[m].reached
                                /\ raised >= milestones[m].amount_sol}]
                /\ UNCHANGED <<dresp, creator_wallet, payouts, transfers>>
    /\ UNCHANGED <<now, vt, authVars, payVars>>

\* how a dispatch of notifications can go: every notification is stored;
\* one of them raises before it touches the session; the flush inside
\* a notification's own commit fails, which leaves the session rolled back
\* and refusing further use until rollback() is called
NotifyOutcomes == {"sent", "raised", "raised_in_commit"}

\* the response of a request whose donation is committed and whose JSON
\* body could not be built: the 500 handler's 'Internal server error'
ErrorAfterCommit == "Internal server error (donation recorded)"

\* lines 125-142: notify_new_donation and notify_milestone_reached inside
\* try/except, then the JSON response, which reads the donation and the
\* project through the session again (the 500 handler answers when that
\* raises)
verify_donation_notify(d) ==
    /\ dreq[d].pc = "notifying"
    /\ \E outcome \in NotifyOutcomes :
        DonRespond(d, IF outcome = "raised_in_commit"
                      THEN ErrorAfterCommit ELSE "success")
    /\ UNCHANGED <<now, vt, authVars, dbVars, applied, payVars>>

(***************************************************************************)
(* Payout engine (process_pending_payouts, process_single_payout,          *)
(* retry_failed_payout)                                                    *)
(***************************************************************************)
NoSig == <<>>                          \* payouts.tx_signature IS NULL

\* process_single_payout, line 66 (exact while total_raised * 25 is a
\* multiple of 1000 units; written so that the product stays in range)
platform_fee(total_raised) ==
    (total_raised \div 1000) * PLATFORM_FEE_PERMILLE
        + ((total_raised % 1000) * PLATFORM_FEE_PERMILLE) \div 1000

\* a settlement that pays out what was raised, no fee deducted
net_amount_gross(total_raised) == total_raised

\* process_single_payout, line 67
net_amount(total_raised) == total_raised - platform_fee(total_raised)

\* the ascending list of a set of project ids
RECURSIVE SetToSeq(_)
SetToSeq(S) ==
    IF S = {} THEN <<>>
    ELSE LET m == CHOOSE x \in S : \A y \in S : x <= y
         IN  <<m>> \o SetToSeq(S \ {m})

\* the sweep's filter without the payout_status test
selected_any_payout_status(project) ==
    /\ project.status = "active"
    /\ project.end_date < now
    /\ project.raised_sol > 0

\* process_pending_payouts, lines 23-28: the query's filter
selected(project) ==
    /\ project.status = "active"
    /\ project.end_date < now
    /\ project.payout_status = "pending"
    /\ project.raised_sol > 0

NoSession == [p \in Projects |-> None]

StartPay(kind, todo) ==
    [pc |-> "loop", kind |-> kind, todo |-> todo,
     raised_sol |-> [p \in Projects |-> projects[p].raised_sol],
     ended |-> {}, payout_status |-> NoSession, payout_tx |-> NoSession,
     payout |-> <<>>, recipient |-> None, locked |-> {}, processed |-> 0]

\* Payout rows a worker's call has written or may still write
InFlightPayouts(r) ==
    IF r.pc = "idle" THEN 0
    ELSE Len(r.payout) + Len(r.todo) - (IF r.pc = "sending" THEN 1 ELSE 0)

RECURSIVE SumInFlight(_)
SumInFlight(W) ==
    IF W = {} THEN 0
    ELSE LET w == CHOOSE x \in W : TRUE
         IN  InFlightPayouts(preq[w]) + SumInFlight(W \ {w})

\* room for n more Payout rows within the bound of the exploration
PayoutRoom(n) == Len(payouts) + SumInFlight(PayProcs) + n <= MaxPayouts

\* what a worker's last call returned: the sweep its count of processed
\* payouts, the retry route the message it flashed
Swept(processed) ==
    [call |-> "sweep", project_id |-> 0, processed |-> processed,
     message |-> ""]
Retried(project_id, message) ==
    [call |-> "retry", project_id |-> project_id, processed |-> 0,
     message |-> message]

RowLockedByOther(w, p) == \E o \in PayProcs \ {w} : p \in preq[o].locked

\* lines 13-28: the sweep's query; the session keeps the rows as loaded
process_pending_payouts_select(w) ==
    /\ preq[w].pc = "idle"
    /\ PayoutRoom(Cardinality({p \in Projects : selected(projects[p])}))
    /\ preq' = [preq EXCEPT ![w] =
            StartPay("sweep", SetToSeq({p \in Projects : selected(projects[p])}))]
    /\ UNCHANGED <<now, vt, authVars, dbVars, donVars, presp>>

\* process_single_payout, lines 56-90, for project p with the session's
\* total_raised and the creator's wallet: the worker's next state, either
\* returning False at once or waiting in send_sol with a processing Payout
single_payout_begin(r, p, total_raised, wallet) ==
    IF PLATFORM_WALLET_SECRET = ""
    THEN [r EXCEPT !.pc = "returned"]
    ELSE IF net_amount(total_raised) < MIN_PAYOUT
    THEN [r EXCEPT !.pc = "returned"]
    ELSE [r EXCEPT !.pc = "sending",
                   !.payout = Append(@,
                        [project_id |-> p, total_raised |-> total_raised,
                         platform_fee |-> platform_fee(total_raised),
                         net_amount |-> net_amount(total_raised),
                         recipient_wallet |-> wallet, tx_signature |-> NoSig,
                         status |-> "processing", error_message |-> "",
                         completed_at |-> NoTime]),
                   !.recipient = wallet,
                   !.payout_status[p] = "processing"]

\* after process_single_payout returned inside the sweep: lines 43-44 and
\* the next turn of the loop
sweep_continue(r, success) ==
    [r EXCEPT !.pc = "loop", !.todo = Tail(@),
              !.processed = IF success THEN @ + 1 ELSE @]

\* a sweep that takes every creator to have a wallet
creator_has_wallet_always(wallet_address) == TRUE

\* line 35: project.creator.wallet_address is set
creator_has_wallet(wallet_address) == wallet_address /= None

\* lines 30-42 for the next selected project: status = 'ended', the lazy
\* load of project.creator (which flushes the UPDATE and locks the row),
\* the wallet test, and process_single_payout up to its send_sol call
process_pending_payouts_project(w) ==
    /\ preq[w].pc = "loop"
    /\ preq[w].kind = "sweep"
    /\ preq[w].todo /= <<>>
    /\ LET p == Head(preq[w].todo)
           r == [preq[w] EXCEPT !.ended = @ \cup {p}, !.locked = @ \cup {p}]
       IN  /\ ~RowLockedByOther(w, p)
           /\ IF ~creator_has_wallet(creator_wallet[p])
              THEN preq' = [preq EXCEPT ![w] = sweep_continue(r, FALSE)]
              ELSE LET b == single_payout_begin(r, p, r.raised_sol[p],
                                                creator_wallet[p])
                   IN  preq' = [preq EXCEPT ![w] =
                            IF b.pc = "returned" THEN sweep_continue(b, FALSE)
                            ELSE b]
    /\ UNCHANGED <<now, vt, authVars, dbVars, donVars, presp>>

\* process_single_payout, lines 97-123: what the worker's session holds
\* once send_sol has returned result
single_payout_end(r, p, result) ==
    LET k == Len(r.payout) IN
    IF result.success
    THEN [r EXCEPT !.payout[k].tx_signature = result.signature,
                   !.payout[k].status = "completed",
                   !.payout[k].completed_at = now,
                   !.payout_status[p] = "completed",
                   !.payout_tx[p] = result.signature]
    ELSE [r EXCEPT !.payout[k].status = "failed",
                   !.payout[k].error_message = result.error,
                   !.payout_status[p] = "failed"]

\* db.session.commit() of a payout worker: the UPDATEs of the attributes
\* its session changed and the INSERTs of its Payout rows
CommitPay(r) ==
    /\ projects' = [p \in Projects |->
            [projects[p] EXCEPT
                !.status = IF p \in r.ended THEN "ended" ELSE @,
                !.payout_status =
                    IF r.payout_status[p] /= None THEN r.payout_status[p] ELSE @,
                !.payout_tx =
                    IF r.payout_tx[p] /= None THEN r.payout_tx[p] ELSE @]]
    /\ payouts' = payouts \o r.payout

\* what send_sol can return for a transfer to project p's creator: the
\* ledger accepts the transaction and answers with its signature, or
\* the call fails
SendResults(p) ==
    {[success |-> TRUE, signature |-> <<"payout", p, transfers[p] + 1>>,
      error |-> ""],
     [success |-> FALSE, signature |-> NoSig, error |-> "Failed to send transaction"]}

IdlePay == [pc |-> "idle", locked |-> {}]

\* a sweep worker's send_sol call returns (lines 91-123), and the loop
\* goes on; nothing is committed yet
process_pending_payouts_sent(w) ==
    /\ preq[w].pc = "sending"
    /\ preq[w].kind = "sweep"
    /\ LET p == Head(preq[w].todo) IN
       \E result \in SendResults(p) :
          /\ transfers' = [transfers EXCEPT ![p] =
                                IF result.success THEN @ + 1 ELSE @]
          /\ preq' = [preq EXCEPT ![w] =
                sweep_continue(single_payout_end(preq[w], p, result),
                               result.success)]
    /\ UNCHANGED <<now, vt, authVars, projects, creator_wallet, donations,
                   reward_tiers, milestones, payouts, donVars, presp>>

\* lines 46-47: the sweep's single commit and its return value
process_pending_payouts_commit(w) ==
    /\ preq[w].pc = "loop"
    /\ preq[w].kind = "sweep"
    /\ preq[w].todo = <<>>
    /\ CommitPay(preq[w])
    /\ presp' = [presp EXCEPT ![w] = Swept(preq[w].processed)]
    /\ preq' = [preq EXCEPT ![w] = IdlePay]
    /\ UNCHANGED <<now, vt, authVars, creator_wallet, donations, reward_tiers,
                   milestones, transfers, donVars>>

\* retry_failed_payout without its test of payout_status
retry_gate_open(project) == TRUE

\* retry_failed_payout, lines 142-143: the payout must have failed
retry_gate(project) == project.payout_status = "failed"

\* retry_failed_payout, lines 133-150: the checks, then payout_status =
\* 'pending' is committed before the transfer is attempted again
retry_failed_payout_start(w, p) ==
    /\ preq[w].pc = "idle"
    /\ IF p \notin Projects
       THEN /\ presp' = [presp EXCEPT ![w] = Retried(p, "Project not found")]
            /\ UNCHANGED <<preq, projects>>
       ELSE IF ~retry_gate(projects[p])
       THEN /\ presp' = [presp EXCEPT ![w] =
                    Retried(p, "Payout is not in failed status")]
            /\ UNCHANGED <<preq, projects>>
       ELSE IF creator_wallet[p] = None
       THEN /\ presp' = [presp EXCEPT ![w] =
                    Retried(p, "Creator has no wallet address set")]
            /\ UNCHANGED <<preq, projects>>
       ELSE /\ ~RowLocked(p)
            /\ PayoutRoom(1)
            /\ projects' = [projects EXCEPT ![p].payout_status = "pending"]
            /\ preq' = [preq EXCEPT ![w] =
                    [StartPay("retry", <<p>>) EXCEPT !.pc = "retry_pending"]]
            /\ UNCHANGED presp
    /\ UNCHANGED <<now, vt, authVars, creator_wallet, donations, reward_tiers,
                   milestones, payouts, transfers, donVars>>

\* line 152: process_single_payout up to its send_sol call; the commit at
\* line 150 expired the session, so the project and its creator are read
\* again.  With the creator's wallet cleared meanwhile the Payout row has
\* no recipient_wallet (NOT NULL): the flush at line 86 fails, the session
\* is unusable and the call raises with nothing written.  A
\* False return is committed at line 153 with nothing to write.
retry_failed_payout_payout(w) ==
    /\ preq[w].pc = "retry_pending"
    /\ LET p == Head(preq[w].todo) IN
       IF creator_wallet[p] = None
       THEN /\ presp' = [presp EXCEPT ![w] = Retried(p, "raised")]
            /\ preq' = [preq EXCEPT ![w] = IdlePay]
       ELSE LET b == single_payout_begin(preq[w], p, projects[p].raised_sol,
                                         creator_wallet[p])
            IN  IF b.pc = "returned"
                THEN /\ presp' = [presp EXCEPT ![w] = Retried(p, "Payout failed")]
                     /\ preq' = [preq EXCEPT ![w] = IdlePay]
                ELSE /\ preq' = [preq EXCEPT ![w] = b]
                     /\ UNCHANGED presp
    /\ UNCHANGED <<now, vt, authVars, dbVars, donVars>>

\* the retry's send_sol call returns, and line 153 commits the outcome
retry_failed_payout_sent(w) ==
    /\ preq[w].pc = "sending"
    /\ preq[w].kind = "retry"
    /\ LET p == Head(preq[w].todo) IN
       /\ ~RowLockedByOther(w, p)
       /\ \E result \in SendResults(p) :
            /\ transfers' = [transfers EXCEPT ![p] =
                                  IF result.success THEN @ + 1 ELSE @]
            /\ CommitPay(single_payout_end(preq[w], p, result))
            /\ presp' = [presp EXCEPT ![w] =
                    Retried(p, IF result.success
                            THEN "Payout sent successfully"
                            ELSE "Payout failed")]
    /\ preq' = [preq EXCEPT ![w] = IdlePay]
    /\ UNCHANGED <<now, vt, authVars, creator_wallet, donations, reward_tiers,
                   milestones, donVars>>

\* send_sol, lines 231-247, when the reply to sendTransaction does not
\* arrive (rpc_request, lines 38-43: a RequestException gives None)
LostResult ==
    [success |-> FALSE, signature |-> NoSig, error |-> "Failed to send transaction"]

\* a worker's sendTransaction request reaches the ledger, which accepts the
\* transfer, and the reply is lost (timeout=30): send_sol reports failure,
\* and the sweep goes on or the retry commits
send_sol_response_lost(w) ==
    /\ preq[w].pc = "sending"
    /\ LET p == Head(preq[w].todo) IN
       /\ transfers' = [transfers EXCEPT ![p] = @ + 1]
       /\ IF preq[w].kind = "sweep"
          THEN /\ preq' = [preq EXCEPT ![w] =
                    sweep_continue(single_payout_end(preq[w], p, LostResult),
                                   FALSE)]
               /\ UNCHANGED <<projects, payouts, presp>>
          ELSE /\ ~RowLockedByOther(w, p)
               /\ CommitPay(single_payout_end(preq[w], p, LostResult))
               /\ presp' = [presp EXCEPT ![w] = Retried(p, "Payout failed")]
               /\ preq' = [preq EXCEPT ![w] = IdlePay]
    /\ UNCHANGED <<now, vt, authVars, creator_wallet, donations, reward_tiers,
                   milestones, donVars>>

\* the process running a sweep stops inside the loop of lines 30-44, after
\* send_sol returned and before the commit of line 46: the connection
\* closes and the database rolls the open transaction back (explored
\* while the ledger holds fewer than MaxPayouts transfers of a campaign)
sweep_process_stops(w) ==
    /\ preq[w].pc = "loop"
    /\ preq[w].kind = "sweep"
    /\ preq[w].payout /= <<>>
    /\ \A p \in Projects : transfers[p] < MaxPayouts
    /\ preq' = [preq EXCEPT ![w] = IdlePay]
    /\ presp' = [presp EXCEPT ![w] =
            [call |-> "stopped", project_id |-> 0, processed |-> 0,
             message |-> ""]]
    /\ UNCHANGED <<now, vt, authVars, dbVars, donVars>>

(***************************************************************************)
(* Other operations that write the rows the payout engine reads            *)
(***************************************************************************)
\* admin.ban_project: any project that is not banned becomes banned
ban_project(p) ==
    /\ projects[p].status /= "banned"
    /\ ~RowLocked(p)
    /\ projects' = [projects EXCEPT ![p].status = "banned"]
    /\ UNCHANGED <<now, vt, authVars, creator_wallet, donations, reward_tiers,
                   milestones, payouts, transfers, donVars, payVars>>

\* admin.unban_project: a banned project becomes active again
unban_project(p) ==
    /\ projects[p].status = "banned"
    /\ ~RowLocked(p)
    /\ projects' = [projects EXCEPT ![p].status = "active"]
    /\ UNCHANGED <<now, vt, authVars, creator_wallet, donations, reward_tiers,
                   milestones, payouts, transfers, donVars, payVars>>

\* Project.donation_count: the confirmed donations of the project
donation_count(p) ==
    Cardinality({x \in donations : x.project_id = p /\ x.status = "confirmed"})

\* projects.cancel: the creator cancels a project that has no donations
cancel(p) ==
    /\ donation_count(p) = 0
    /\ projects[p].status /= "cancelled"
    /\ ~RowLocked(p)
    /\ projects' = [projects EXCEPT ![p].status = "cancelled"]
    /\ UNCHANGED <<now, vt, authVars, creator_wallet, donations, reward_tiers,
                   milestones, payouts, transfers, donVars, payVars>>

\* an edit that would also take the reached mark back
edited_unreached(milestone, amount_sol) ==
    [milestone EXCEPT !.amount_sol = amount_sol, !.reached = FALSE,
                      !.reached_at = NoTime]

\* projects.edit_milestone, lines 443-450: title, description and
\* amount_sol are rewritten, nothing else
edited(milestone, amount_sol) == [milestone EXCEPT !.amount_sol = amount_sol]

\* projects.edit_milestone: the creator changes a milestone's amount
edit_milestone(mid, amount_sol) ==
    /\ milestones[mid].amount_sol /= amount_sol
    /\ milestones' = [milestones EXCEPT ![mid] = edited(@, amount_sol)]
    /\ UNCHANGED <<now, vt, authVars, projects, creator_wallet, donations,
                   reward_tiers, payouts, transfers, donVars, payVars>>

\* profile: the creator sets or clears the wallet address
set_wallet_address(p, wallet_address) ==
    /\ creator_wallet[p] /= wallet_address
    /\ creator_wallet' = [creator_wallet EXCEPT ![p] = wallet_address]
    /\ UNCHANGED <<now, vt, authVars, projects, donations, reward_tiers,
                   milestones, payouts, transfers, donVars, payVars>>


InitCampaigns ==
    /\ projects = [p \in Projects |->
            [status |-> "active", end_date |-> END_DATE, raised_sol |-> 0,
             payout_status |-> "pending", payout_tx |-> None]]
    /\ creator_wallet = [p \in Projects |-> IF p = 1 THEN "creatorW" ELSE None]
    /\ donations = {}
    /\ reward_tiers = [t \in TierIds |->
            [project_id |-> 1, min_amount_sol |-> 1 * SOL, max_claims |-> 1,
             claimed_count |-> 0]]
    /\ milestones = [m \in MilestoneIds |->
            [project_id |-> 1, amount_sol |-> (m + 1) * SOL, reached |-> FALSE,
             reached_at |-> NoTime]]
    /\ payouts = <<>>
    /\ transfers = [p \in Projects |-> 0]
    /\ dreq = [d \in DonProcs |-> IdleDon]
    /\ dresp = [d \in DonProcs |-> "none"]
    /\ applied = [x \in TxSignatures |-> 0]
    /\ preq = [w \in PayProcs |-> IdlePay]
    /\ presp = [w \in PayProcs |-> [call |-> "none", project_id |-> 0, processed |-> 0, message |-> ""]]

InitAuth ==
    /\ wallet_nonces = {}
    /\ next_token = 0
    /\ users = {}
    /\ areq = [a \in AuthProcs |-> IdleAuth]
    /\ aresp = [a \in AuthProcs |-> "none"]
    /\ logins = <<>>
    /\ issued = [n \in Tokens |-> None]
    /\ nverify = 0

Init ==
    /\ now = 0
    /\ InitAuth
    /\ InitCampaigns
    /\ vt = IdleVt

NextAuth ==
    \/ \E a \in AuthProcs, w \in Wallets : wallet_nonce_delete(a, w)
    \/ \E a \in AuthProcs : wallet_nonce_commit(a)
    \/ \E a \in AuthProcs, w \in Wallets, n \in Tokens, s \in Signatures :
            wallet_verify_check(a, w, n, s)
    \/ \E a \in AuthProcs : wallet_verify_commit(a)
    \/ cleanup_expired
    \/ Tick

SpecAuth == Init /\ [][NextAuth]_vars

NextDon ==
    \/ \E d \in DonProcs, c \in DonationClaims, t \in RewardChoices :
            verify_donation_check(d, 1, c[1], c[2], "donorA", t[1], t[2])
    \/ \E d \in DonProcs : verify_donation_verify(d)
    \/ \E d \in DonProcs : verify_donation_commit(d)
    \/ \E d \in DonProcs : verify_donation_notify(d)
    \/ ban_project(1)
    \/ unban_project(1)
    \/ Tick

SpecDon == Init /\ [][NextDon]_vars

\* the payout engine's workers running concurrently, with the operations
\* that change what they read
NextPay ==
    \/ verify_donation_check("d1", 1, "sig1", 1 * SOL, "donorA", NoTier, None)
    \/ verify_donation_verify("d1")
    \/ verify_donation_commit("d1")
    \/ verify_donation_notify("d1")
    \/ \E w \in PayProcs : process_pending_payouts_select(w)
    \/ \E w \in PayProcs : process_pending_payouts_project(w)
    \/ \E w \in PayProcs : process_pending_payouts_sent(w)
    \/ \E w \in PayProcs : process_pending_payouts_commit(w)
    \/ \E w \in PayProcs : retry_failed_payout_start(w, 1)
    \/ \E w \in PayProcs : retry_failed_payout_payout(w)
    \/ \E w \in PayProcs : retry_failed_payout_sent(w)
    \/ ban_project(1)
    \/ unban_project(1)
    \/ \E v \in {None, "creatorW"} : set_wallet_address(1, v)
    \/ Tick

SpecPay == Init /\ [][NextPay]_vars

\* no request or worker is in the middle of an operation
AllIdle ==
    /\ \A d \in DonProcs : dreq[d].pc = "idle"
    /\ \A w \in PayProcs : preq[w].pc = "idle"

\* operations that do not overlap: one starts only when none is running
NextSeq ==
    \/ /\ AllIdle
       /\ \E c \in {<<"sig1", 1 * SOL>>, <<"sig2", 2 * SOL>>} :
            verify_donation_check("d1", 1, c[1], c[2], "donorA", NoTier, None)
    \/ verify_donation_verify("d1")
    \/ verify_donation_commit("d1")
    \/ verify_donation_notify("d1")
    \/ AllIdle /\ process_pending_payouts_select("p1")
    \/ process_pending_payouts_project("p1")
    \/ process_pending_payouts_sent("p1")
    \/ process_pending_payouts_commit("p1")
    \/ AllIdle /\ \E p \in Projects \cup {MissingProject} :
            retry_failed_payout_start("p2", p)
    \/ retry_failed_payout_payout("p2")
    \/ retry_failed_payout_sent("p2")
    \/ AllIdle /\ \E p \in Projects : ban_project(p)
    \/ AllIdle /\ \E p \in Projects : unban_project(p)
    \/ AllIdle /\ \E p \in Projects : cancel(p)
    \/ AllIdle /\ \E p \in Projects, v \in {None, "creatorW"} :
            set_wallet_address(p, v)
    \/ Tick

SpecSeq == Init /\ [][NextSeq]_vars

\* a campaign with milestones at 10 and 20 units
InitContrib ==
    /\ now = 0
    /\ InitAuth
    /\ vt = IdleVt
    /\ projects = [p \in Projects |->
            [status |-> "active", end_date |-> END_DATE, raised_sol |-> 0,
             payout_status |-> "pending", payout_tx |-> None]]
    /\ creator_wallet = [p \in Projects |-> IF p = 1 THEN "creatorW" ELSE None]
    /\ donations = {}
    /\ reward_tiers = [t \in TierIds |->
            [project_id |-> 1, min_amount_sol |-> 1 * SOL, max_claims |-> 1,
             claimed_count |-> 0]]
    /\ milestones = [m \in MilestoneIds |->
            [project_id |-> 1, amount_sol |-> m * 10 * UNIT, reached |-> FALSE,
             reached_at |-> NoTime]]
    /\ payouts = <<>>
    /\ transfers = [p \in Projects |-> 0]
    /\ dreq = [d \in DonProcs |-> IdleDon]
    /\ dresp = [d \in DonProcs |-> "none"]
    /\ applied = [x \in TxSignatures \cup DOMAIN Contributions |-> 0]
    /\ preq = [w \in PayProcs |-> IdlePay]
    /\ presp = [w \in PayProcs |-> [call |-> "none", project_id |-> 0, processed |-> 0, message |-> ""]]

\* contributions of 5, 6 and 12 units recorded one after the other, in
\* any order, each claimed with any of the three amounts
NextContrib ==
    \/ \E tx_signature \in DOMAIN Contributions, amount \in {5, 6, 12} :
            verify_donation_check("d1", 1, tx_signature, amount * UNIT,
                                  "donorA", NoTier, None)
    \/ verify_donation_verify("d1")
    \/ verify_donation_commit("d1")
    \/ verify_donation_notify("d1")
    \/ Tick

SpecContrib == InitContrib /\ [][NextContrib]_vars

\* donations, the creator editing milestone amounts, and the sweep
NextMile ==
    \/ \E c \in {<<"sig1", 1 * SOL>>, <<"sig2", 2 * SOL>>} :
            verify_donation_check("d1", 1, c[1], c[2], "donorA", NoTier, None)
    \/ verify_donation_verify("d1")
    \/ verify_donation_commit("d1")
    \/ verify_donation_notify("d1")
    \/ \E mid \in MilestoneIds, amount_sol \in {1 * SOL, 4 * SOL} :
            edit_milestone(mid, amount_sol)
    \/ process_pending_payouts_select("p1")
    \/ process_pending_payouts_project("p1")
    \/ process_pending_payouts_sent("p1")
    \/ process_pending_payouts_commit("p1")
    \/ Tick

SpecMile == Init /\ [][NextMile]_vars

\* calls of verify_transaction for a donation of 1 SOL by donorA, against
\* everything the RPC node may answer
NextVerify ==
    \/ verify_transaction_call(1 * SOL, "donorA")
    \/ verify_transaction_poll
    \/ verify_transaction_sleep
    \/ verify_transaction_return

SpecVerify == Init /\ [][NextVerify]_vars

\* the worker running verify_transaction keeps running, and every request
\* to the node returns (timeout=30)
SpecVerifyFair == SpecVerify /\ WF_vars(NextVerify)

\* donations to a campaign that is reaching its end_date, and the
\* scheduler's sweep
NextLate ==
    \/ \E c \in {<<"sig1", 1 * SOL>>, <<"sig2", 2 * SOL>>} :
            verify_donation_check("d1", 1, c[1], c[2], "donorA", NoTier, None)
    \/ verify_donation_verify("d1")
    \/ verify_donation_commit("d1")
    \/ verify_donation_notify("d1")
    \/ process_pending_payouts_select("p1")
    \/ process_pending_payouts_project("p1")
    \/ process_pending_payouts_sent("p1")
    \/ process_pending_payouts_commit("p1")
    \/ Tick

SpecLate == Init /\ [][NextLate]_vars

\* Campaigns as a sweep may find them: past their end_date, with what
\* they raised (nothing, 0.0005 SOL, 0.001024 and 0.001028 SOL whose net
\* amounts 0.0009984 and 0.0010023 lie on either side of the minimum
\* payout, 50 SOL, 100 SOL) recorded as one confirmed donation, active or
\* banned, the creator with or without wallet
SweepRaised ==
    {0, SOL \div 2000, 1024 * (SOL \div 1000000), 1028 * (SOL \div 1000000),
     50 * SOL, 100 * SOL}

InitSweep ==
    /\ now = MaxTime
    /\ InitAuth
    /\ vt = IdleVt
    /\ \E raised \in [Projects -> SweepRaised],
          status \in [Projects -> {"active", "banned"}],
          wallet \in [Projects -> {None, "creatorW"}] :
        /\ projects = [p \in Projects |->
                [status |-> status[p], end_date |-> END_DATE,
                 raised_sol |-> raised[p], payout_status |-> "pending",
                 payout_tx |-> None]]
        /\ creator_wallet = wallet
        /\ donations = {[id |-> p, project_id |-> p, reward_tier_id |-> NoTier,
                         amount_sol |-> raised[p],
                         tx_signature |-> IF p = 1 THEN "sig1" ELSE "sig2",
                         donor_wallet |-> "donorA", status |-> "confirmed"] :
                            p \in {q \in Projects : raised[q] > 0}}
        /\ milestones = [m \in MilestoneIds |->
                [project_id |-> 1, amount_sol |-> (m + 1) * SOL,
                 reached |-> raised[1] >= (m + 1) * SOL,
                 reached_at |-> IF raised[1] >= (m + 1) * SOL THEN 0 ELSE NoTime]]
        /\ applied = [x \in TxSignatures |->
                IF raised[IF x = "sig1" THEN 1 ELSE 2] > 0 THEN 1 ELSE 0]
    /\ reward_tiers = [t \in TierIds |->
            [project_id |-> 1, min_amount_sol |-> 1 * SOL, max_claims |-> 1,
             claimed_count |-> 0]]
    /\ payouts = <<>>
    /\ transfers = [p \in Projects |-> 0]
    /\ dreq = [d \in DonProcs |-> IdleDon]
    /\ dresp = [d \in DonProcs |-> "none"]
    /\ preq = [w \in PayProcs |-> IdlePay]
    /\ presp = [w \in PayProcs |-> [call |-> "none", project_id |-> 0, processed |-> 0, message |-> ""]]

\* one scheduler running process_pending_payouts, nothing else going on
NextSweep ==
    \/ process_pending_payouts_select("p1")
    \/ process_pending_payouts_project("p1")
    \/ process_pending_payouts_sent("p1")
    \/ process_pending_payouts_commit("p1")

SpecSweep == InitSweep /\ [][NextSweep]_vars

\* sweeps and manual retries one after the other, over a ledger whose
\* replies may be lost and a scheduler process that may stop
NextLost ==
    \/ AllIdle /\ process_pending_payouts_select("p1")
    \/ process_pending_payouts_project("p1")
    \/ process_pending_payouts_sent("p1")
    \/ process_pending_payouts_commit("p1")
    \/ sweep_process_stops("p1")
    \/ AllIdle /\ \E p \in Projects : retry_failed_payout_start("p2", p)
    \/ retry_failed_payout_payout("p2")
    \/ retry_failed_payout_sent("p2")
    \/ \E w \in PayProcs : send_sol_response_lost(w)

SpecLost == InitSweep /\ [][NextLost]_vars

\* what can follow a sweep: further sweeps, manual retries, the creator
\* setting or clearing the wallet, an admin banning and unbanning
NextAfterSweep ==
    \/ AllIdle /\ process_pending_payouts_select("p1")
    \/ process_pending_payouts_project("p1")
    \/ process_pending_payouts_sent("p1")
    \/ process_pending_payouts_commit("p1")
    \/ AllIdle /\ \E p \in Projects : retry_failed_payout_start("p2", p)
    \/ retry_failed_payout_payout("p2")
    \/ retry_failed_payout_sent("p2")
    \/ AllIdle /\ \E p \in Projects : ban_project(p)
    \/ AllIdle /\ \E p \in Projects : unban_project(p)
    \/ AllIdle /\ \E p \in Projects, v \in {None, "creatorW"} :
            set_wallet_address(p, v)

SpecAfterSweep == InitSweep /\ [][NextAfterSweep]_vars

(***************************************************************************)
(* Donations: claims                                                       *)
(***************************************************************************)
\* C1: under any interleaving of donation-verify requests, at most one
\* Donation row exists per tx_signature, and raised_sol has been
\* incremented for a signature at most once.
OneDonationPerSignature ==
    /\ \A x, y \in donations : x.tx_signature = y.tx_signature => x = y
    /\ \A sig \in TxSignatures : applied[sig] <= 1

\* C1 witness: two requests carried sig1 at the same time; one was recorded
\* and the other one's INSERT was refused by the unique index.
ConcurrentDuplicateRefused ==
    /\ applied["sig1"] = 1
    /\ \E d \in DonProcs : dresp[d] = "Internal server error"

RECURSIVE SumAmounts(_)
SumAmounts(D) ==
    IF D = {} THEN 0
    ELSE LET x == CHOOSE y \in D : TRUE
         IN  x.amount_sol + SumAmounts(D \ {x})

\* C4: in every committed state each campaign's raised_sol equals the sum
\* of amount_sol over its confirmed Donation rows.
RaisedEqualsConfirmedSum ==
    \A p \in Projects :
        projects[p].raised_sol =
            SumAmounts({x \in donations :
                            x.project_id = p /\ x.status = "confirmed"})

\* C8: for a reward tier with max_claims set, the number of recorded
\* donations that claim the tier never exceeds max_claims, and
\* claimed_count <= max_claims.
TierClaimsWithinMax ==
    \A t \in TierIds :
        reward_tiers[t].max_claims /= NoLimit =>
            /\ Cardinality({x \in donations : x.reward_tier_id = t})
                    <= reward_tiers[t].max_claims
            /\ reward_tiers[t].claimed_count <= reward_tiers[t].max_claims

\* C9: a Donation is persisted only for a campaign that is accepting funds:
\* at the moment a Donation row is committed its campaign's status is
\* active and now < end_date.
DonationOnlyWhileAccepting ==
    [][\A x \in donations' \ donations :
            /\ projects[x.project_id].status = "active"
            /\ now < projects[x.project_id].end_date]_vars

\* C10: a donation-verify request whose tx_signature already belongs to a
\* recorded Donation when it comes to record its own is answered with
\* 'Transaction already processed', and raised_sol, claimed_count and the
\* milestone flags stay as they are.
DuplicateGetsDuplicateError ==
    [][\A d \in DonProcs :
            (/\ dreq[d].pc = "ready"
             /\ dreq'[d].pc = "idle"
             /\ existing(dreq[d].tx_signature))
            => /\ dresp'[d] = "Transaction already processed"
               /\ UNCHANGED <<projects, reward_tiers, milestones>>]_vars

\* what verify_transaction returns for a Donation row's signature, donor
\* wallet and amount once the ledger shows the transaction
Reverified(x) ==
    verify_transaction({ChainTx(x.tx_signature)}, PLATFORM_WALLET_ADDRESS,
                       x.amount_sol, x.donor_wallet)

\* C23: a Donation with tx_signature S, donor wallet W and amount A is
\* created only by a request in which verify_transaction(S, platform
\* wallet, A, W) has returned success; the verification step writes nothing
\* to the database and gives the same result when repeated on the ledger's
\* transaction; rows are inserted with status confirmed and never
\* rewritten.
DonationOnlyAfterVerification ==
    [][/\ \A d \in DonProcs :
            /\ (dreq[d].pc = "verifying" /\ dreq'[d] /= dreq[d])
                => /\ UNCHANGED dbVars
                   /\ dreq'[d].pc = "ready" => Reverified(dreq[d]).success
            /\ dreq'[d].pc = "ready" => dreq[d].pc \in {"verifying", "ready"}
       /\ donations \subseteq donations'
       /\ \A x \in donations' \ donations :
            /\ x.status = "confirmed"
            /\ Reverified(x).success
            /\ \E d \in DonProcs :
                /\ dreq[d].pc = "ready"
                /\ dreq'[d].pc = "notifying"
                /\ dreq[d].tx_signature = x.tx_signature
                /\ dreq[d].amount_sol = x.amount_sol
                /\ dreq[d].donor_wallet = x.donor_wallet]_vars

\* C23 witness: a donation was recorded, and a request that claimed an
\* amount the transaction did not move was turned away by the verification.
VerifiedRecordedAndMismatchRejected ==
    /\ \E x \in donations : x.status = "confirmed" /\ Reverified(x).success
    /\ \E d \in DonProcs : dresp[d] = "Transfer not found in transaction"

(***************************************************************************)
(* Payouts: claims                                                         *)
(***************************************************************************)
\* the workers that are inside send_sol for project p, the outcome of the
\* transfer not yet recorded
Sending(p) ==
    {w \in PayProcs : preq[w].pc = "sending" /\ Head(preq[w].todo) = p}

\* C2: at most one settlement attempt is in flight per campaign: send_sol
\* is never running for a campaign in two workers (sweeps or retries) at
\* the same time.
OneSettlementInFlight ==
    \A p \in Projects : Cardinality(Sending(p)) <= 1

\* C3: after any sequence of non-overlapping operations every campaign has
\* at most one Payout row with status completed, and no sweep or retry is
\* inside send_sol for a campaign whose payout_status is completed.
OneCompletedPayout ==
    /\ \A i, j \in DOMAIN payouts :
            (/\ payouts[i].project_id = payouts[j].project_id
             /\ payouts[i].status = "completed"
             /\ payouts[j].status = "completed") => i = j
    /\ \A p \in Projects :
            projects[p].payout_status = "completed" => Sending(p) = {}

\* C3 witness: a campaign whose payout completed was banned and unbanned
\* (active again, past its end_date, money raised), and the sweep now
\* running has queried the table and selected nothing.
SweepAfterCompletedPayout ==
    /\ preq["p1"].pc = "loop"
    /\ preq["p1"].kind = "sweep"
    /\ preq["p1"].todo = <<>>
    /\ preq["p1"].ended = {}
    /\ \E p \in Projects :
        /\ projects[p].payout_status = "completed"
        /\ projects[p].status = "active"
        /\ projects[p].end_date < now
        /\ projects[p].raised_sol > 0
        /\ \E i \in DOMAIN payouts :
                payouts[i].project_id = p /\ payouts[i].status = "completed"

\* the error results of retry_failed_payout's checks (lines 137-146)
RetryRefusals ==
    {"Project not found", "Payout is not in failed status",
     "Creator has no wallet address set"}

\* C11: retry_failed_payout goes on to settlement only for an existing
\* campaign whose payout_status is failed and whose creator has a wallet;
\* in every other case it returns an error result, and the step that
\* returns it calls no send_sol, creates no Payout row and changes no
\* payout_status.
RetryRefusedWithoutEffect ==
    [][\A w \in PayProcs :
        /\ (preq[w].pc = "idle" /\ preq'[w].pc /= "idle"
                /\ preq'[w].kind = "retry")
           => LET p == Head(preq'[w].todo) IN
              /\ p \in Projects
              /\ projects[p].payout_status = "failed"
              /\ creator_wallet[p] /= None
        /\ (presp'[w] /= presp[w] /\ presp'[w].message \in RetryRefusals)
           => /\ LET p == presp'[w].project_id IN
                    \/ p \notin Projects
                    \/ projects[p].payout_status /= "failed"
                    \/ creator_wallet[p] = None
              /\ UNCHANGED <<preq, projects, payouts, transfers>>]_vars

\* C11 witness: a retry was asked for a campaign whose payout had
\* completed, and was refused.
RetryOfCompletedRefused ==
    \E w \in PayProcs :
        /\ presp[w].message = "Payout is not in failed status"
        /\ presp[w].project_id \in Projects
        /\ projects[presp[w].project_id].payout_status = "completed"
        /\ preq[w].pc = "idle"

\* the edges of the payout state machine
PayoutStatusEdges ==
    {<<"pending", "processing">>, <<"processing", "completed">>,
     <<"processing", "failed">>, <<"failed", "pending">>}

\* project.payout_status as worker r's session holds it: the value it
\* assigned, else the value it loaded (the sweep's query loads 'pending'
\* rows, the retry reads the row again after its first commit)
SessionPayoutStatus(r, p) ==
    IF r.payout_status[p] /= None THEN r.payout_status[p]
    ELSE IF r.kind = "sweep" THEN "pending"
    ELSE projects[p].payout_status

\* C12: every assignment to a campaign's payout_status follows one of the
\* edges pending -> processing, processing -> completed, processing ->
\* failed, failed -> pending, and a retry that has run does not leave the
\* campaign at pending.
PayoutStatusFollowsEdges ==
    [][\A w \in PayProcs :
        /\ (preq[w].pc /= "idle" /\ preq'[w].pc /= "idle")
           => \A p \in Projects :
                preq'[w].payout_status[p] /= preq[w].payout_status[p]
                => <<SessionPayoutStatus(preq[w], p),
                     preq'[w].payout_status[p]>> \in PayoutStatusEdges
        /\ (preq[w].pc = "idle" /\ preq'[w].pc /= "idle"
                /\ preq'[w].kind = "retry")
           => LET p == Head(preq'[w].todo) IN
              <<projects[p].payout_status, projects'[p].payout_status>>
                    \in PayoutStatusEdges
        /\ (preq[w].pc /= "idle" /\ preq[w].kind = "retry"
                /\ preq'[w].pc = "idle")
           => LET p == Head(preq[w].todo) IN
              /\ projects'[p].payout_status /= "pending"
              /\ <<SessionPayoutStatus(preq[w], p),
                   projects'[p].payout_status>> \in PayoutStatusEdges]_vars

\* the Payout rows of project p in a payouts table
PayoutsOf(table, p) == {i \in DOMAIN table : table[i].project_id = p}

\* C13: a campaign with status active, end_date in the past, raised_sol =
\* 50, payout_status pending and a creator with a wallet is selected by
\* the sweep, and when the sweep has committed the campaign has status
\* ended and exactly one Payout row, with net_amount = 48.75; the ledger
\* having accepted the transfer, the row and the campaign's payout_status
\* are completed.
SweepSettlesFundedCampaign ==
    [][\A p \in Projects :
        LET funded ==
                /\ projects[p].status = "active"
                /\ projects[p].end_date < now
                /\ projects[p].raised_sol = 50 * SOL
                /\ projects[p].payout_status = "pending"
                /\ creator_wallet[p] /= None
        IN
        /\ (preq["p1"].pc = "idle" /\ preq'["p1"].pc = "loop" /\ funded)
           => \E k \in DOMAIN preq'["p1"].todo : preq'["p1"].todo[k] = p
        /\ (preq["p1"].pc = "loop" /\ preq'["p1"].pc = "idle"
                /\ p \in preq["p1"].ended
                /\ preq["p1"].raised_sol[p] = 50 * SOL
                /\ creator_wallet[p] /= None)
           => /\ projects'[p].status = "ended"
              /\ Cardinality(PayoutsOf(payouts', p)) = 1
              /\ \A i \in PayoutsOf(payouts', p) :
                    /\ payouts'[i].net_amount = 48 * SOL + (3 * SOL) \div 4
                    /\ transfers[p] = 1 =>
                        /\ payouts'[i].status = "completed"
                        /\ projects'[p].payout_status = "completed"]_vars

\* C13 witness: the sweep has run over a campaign that had raised 50, the
\* ledger accepted the transfer, and the campaign is ended and completed.
FundedCampaignSettled ==
    \E p \in Projects :
        /\ presp["p1"].call = "sweep"
        /\ preq["p1"].pc = "idle"
        /\ projects[p].raised_sol = 50 * SOL
        /\ projects[p].status = "ended"
        /\ projects[p].payout_status = "completed"
        /\ transfers[p] = 1

\* C14: every Payout row is created with platform_fee = total_raised *
\* 2.5 / 100 and net_amount = total_raised - platform_fee (2.5 and 97.5
\* for total_raised = 100), so that platform_fee + net_amount =
\* total_raised, and with total_raised equal to the campaign's raised_sol
\* at that time.
PayoutAmountsExact ==
    [][\A w \in PayProcs :
        (/\ preq[w].pc /= "idle"
         /\ preq'[w].pc = "sending"
         /\ preq[w].pc /= "sending")
        => LET row == preq'[w].payout[Len(preq'[w].payout)] IN
           /\ row.platform_fee + row.net_amount = row.total_raised
           /\ row.platform_fee * (1000 \div PLATFORM_FEE_PERMILLE)
                = row.total_raised
           /\ row.total_raised = 100 * SOL
                => /\ row.platform_fee = (5 * SOL) \div 2
                   /\ row.net_amount = 97 * SOL + SOL \div 2
           /\ row.total_raised = projects[row.project_id].raised_sol]_vars

\* C20: process_pending_payouts returns the number of settlements it
\* attempted in that sweep (the transfers it asked the ledger for), whether
\* they succeeded or failed.
SweepReturnsAttempts ==
    [][(preq["p1"].pc = "loop" /\ preq'["p1"].pc = "idle")
            => /\ presp'["p1"].call = "sweep"
               /\ presp'["p1"].processed = Len(preq["p1"].payout)]_vars

\* C21: the ledger accepts at most one payout transfer per campaign, also
\* when the reply to a submission is lost or the process stops between
\* send_sol and the sweep's commit: a later sweep or manual retry submits
\* no second transfer.
LedgerAcceptsOneTransfer ==
    \A p \in Projects : transfers[p] <= 1

\* a sweep or retry that has loaded project p has not yet committed
SettlementInProgress(p) ==
    \E w \in PayProcs :
        /\ preq[w].pc /= "idle"
        /\ \/ p \in preq[w].ended
           \/ \E k \in DOMAIN preq[w].todo : preq[w].todo[k] = p

\* the most recent Payout row of project p (the table is in insertion order)
LatestPayout(p) ==
    payouts[CHOOSE i \in PayoutsOf(payouts, p) :
                \A j \in PayoutsOf(payouts, p) : j <= i]

\* C22: whenever no settlement is in progress for a campaign that has a
\* Payout row, the campaign's payout_status equals the status of its most
\* recent Payout row; a completed row has tx_signature and completed_at
\* set and stands for a transfer the ledger accepted, a failed row has
\* error_message set, and no row is left in processing.
PayoutStatusIsLatestOutcome ==
    \A p \in Projects :
        (~SettlementInProgress(p) /\ PayoutsOf(payouts, p) /= {})
        => /\ projects[p].payout_status = LatestPayout(p).status
           /\ \A i \in PayoutsOf(payouts, p) :
                /\ payouts[i].status \in {"completed", "failed"}
                /\ payouts[i].status = "completed"
                    => /\ payouts[i].tx_signature /= NoSig
                       /\ payouts[i].completed_at /= NoTime
                /\ payouts[i].status = "failed"
                    => payouts[i].error_message /= ""
           /\ Cardinality({i \in PayoutsOf(payouts, p) :
                                payouts[i].status = "completed"}) = transfers[p]

\* the campaigns a sweep in progress has selected: those it has handled
\* and those still in its list
Handled(r) == r.ended \cup {r.todo[k] : k \in DOMAIN r.todo}

\* C24: a sweep handles exactly the campaigns with status active, end_date
\* < now, payout_status pending and raised_sol > 0; each of them has status
\* ended when the sweep has committed, whatever the outcome of its payout;
\* every other campaign keeps its row and its Payout rows, and no transfer
\* is submitted for it.
SweepHandlesExactlySelected ==
    [][LET r == preq["p1"]
           q == preq'["p1"]
       IN
       /\ (r.pc = "idle" /\ q.pc = "loop" /\ q.kind = "sweep")
          => Handled(q) = {p \in Projects :
                                /\ projects[p].status = "active"
                                /\ projects[p].end_date < now
                                /\ projects[p].payout_status = "pending"
                                /\ projects[p].raised_sol > 0}
       /\ (r.pc /= "idle" /\ r.kind = "sweep" /\ q.pc /= "idle")
          => /\ Handled(q) = Handled(r)
             /\ \A p \in Projects :
                    transfers'[p] /= transfers[p] => p \in Handled(r)
             /\ UNCHANGED <<projects, payouts>>
       /\ (r.pc /= "idle" /\ r.kind = "sweep" /\ q.pc = "idle")
          => \A p \in Projects :
                IF p \in Handled(r)
                THEN /\ r.todo = <<>>
                     /\ projects'[p].status = "ended"
                ELSE /\ projects'[p] = projects[p]
                     /\ PayoutsOf(payouts', p) = PayoutsOf(payouts, p)
                     /\ \A i \in PayoutsOf(payouts, p) : payouts'[i] = payouts[i]
                     /\ transfers'[p] = transfers[p]]_vars

\* C24 witness: a sweep has committed; it ended the campaign that had
\* raised money, and the campaign past its end_date that had raised nothing
\* is still active and pending.
SweepEndedOneLeftOther ==
    /\ preq["p1"].pc = "idle"
    /\ presp["p1"].call = "sweep"
    /\ projects[1].status = "ended"
    /\ projects[1].raised_sol > 0
    /\ projects[2].status = "active"
    /\ projects[2].end_date < now
    /\ projects[2].raised_sol = 0
    /\ projects[2].payout_status = "pending"

\* C25: for a campaign whose payout is completed, the completed Payout's
\* total_raised equals the campaign's raised_sol from then on: no step adds
\* a contribution to raised_sol after the settlement.
RaisedFrozenAfterSettlement ==
    [][\A p \in Projects :
        projects[p].payout_status = "completed"
        => /\ projects'[p].raised_sol = projects[p].raised_sol
           /\ \A i \in PayoutsOf(payouts', p) :
                payouts'[i].status = "completed"
                => payouts'[i].total_raised = projects'[p].raised_sol]_vars

\* C26: when a swept campaign's creator has no wallet, settlement is
\* skipped: the sweep creates no Payout row and calls no send_sol for it,
\* assigns nothing to its payout_status, which is still pending after the
\* commit, sets its status to ended, and goes on with the next campaign of
\* the batch.
NoWalletIsSkipped ==
    [][\A w \in PayProcs :
        LET r == preq[w]
            q == preq'[w]
        IN
        /\ (/\ r.pc = "loop" /\ r.kind = "sweep" /\ r.todo /= <<>>
             /\ q /= r
             /\ creator_wallet[Head(r.todo)] = None)
           => /\ q.pc = "loop"
              /\ q.todo = Tail(r.todo)
              /\ Head(r.todo) \in q.ended
              /\ q.payout = r.payout
              /\ q.payout_status = r.payout_status
              /\ UNCHANGED <<payouts, transfers>>
        /\ (r.pc = "loop" /\ r.kind = "sweep" /\ q.pc = "idle"
                /\ presp'[w].call = "sweep")
           => /\ r.todo = <<>>
              /\ \A p \in r.ended :
                    /\ projects'[p].status = "ended"
                    /\ r.payout_status[p] = None
                        => /\ projects'[p].payout_status = projects[p].payout_status
                           /\ projects[p].payout_status = "pending"
                                => projects'[p].payout_status = "pending"
                           /\ PayoutsOf(payouts', p) = PayoutsOf(payouts, p)]_vars

\* C26 witness: a sweep over two campaigns has committed; the first one's
\* creator has no wallet and it is ended, pending and without Payout row,
\* the second one was settled after it.
SkippedThenSettled ==
    /\ preq["p1"].pc = "idle"
    /\ presp["p1"].call = "sweep"
    /\ creator_wallet[1] = None
    /\ projects[1].status = "ended"
    /\ projects[1].payout_status = "pending"
    /\ PayoutsOf(payouts, 1) = {}
    /\ transfers[1] = 0
    /\ projects[2].status = "ended"
    /\ projects[2].payout_status = "completed"
    /\ PayoutsOf(payouts, 2) /= {}

\* C27: a campaign left at status ended with payout_status pending is
\* selected by no later sweep and refused by retry_failed_payout, whether
\* or not its creator has a wallet by then: no settlement is started for
\* it, no Payout row or transfer is added, and only an admin ban changes
\* its status.
EndedPendingIsNeverSettled ==
    [][\A p \in Projects :
        (/\ projects[p].status = "ended"
         /\ projects[p].payout_status = "pending"
         /\ ~SettlementInProgress(p))
        => /\ \A w \in PayProcs :
                /\ preq'[w].pc /= "idle"
                    => /\ p \notin preq'[w].ended
                       /\ \A k \in DOMAIN preq'[w].todo : preq'[w].todo[k] /= p
                /\ (presp'[w] /= presp[w] /\ presp'[w].call = "retry"
                        /\ presp'[w].project_id = p)
                    => presp'[w].message = "Payout is not in failed status"
           /\ projects'[p].status \in {"ended", "banned"}
           /\ projects'[p].payout_status = "pending"
           /\ transfers'[p] = transfers[p]
           /\ PayoutsOf(payouts', p) = PayoutsOf(payouts, p)]_vars

\* C27 witness: a campaign that had raised enough was ended by a sweep
\* while its creator had no wallet; the creator has a wallet now, a retry
\* asked for it was refused, and it is still ended and pending with no
\* Payout row.
ParkedWithWalletRetryRefused ==
    \E p \in Projects :
        /\ projects[p].status = "ended"
        /\ projects[p].payout_status = "pending"
        /\ net_amount(projects[p].raised_sol) >= MIN_PAYOUT
        /\ creator_wallet[p] /= None
        /\ PayoutsOf(payouts, p) = {}
        /\ presp["p2"] = Retried(p, "Payout is not in failed status")
        /\ presp["p1"].call = "sweep"
        /\ AllIdle

\* C28: settlement goes on to a transfer only with net_amount above 0.001;
\* with net_amount not above 0.001 process_single_payout returns without
\* creating a Payout row, without a transfer and without assigning
\* payout_status, which is not failed after the commit.  (An amount of nine
\* decimals never has a net amount of exactly 0.001: in units of 10^-9,
\* n * 975 = 10^9 has no solution, so below and not above coincide.)
DustIsRejected ==
    [][/\ \A n \in 1025000..1026000 :
            n * (1000 - PLATFORM_FEE_PERMILLE) /= 1000 * (LAMPORTS_PER_SOL \div 1000)
       /\ \A w \in PayProcs :
        LET r == preq[w]
            q == preq'[w]
        IN
        /\ (r.pc /= "idle" /\ r.pc /= "sending" /\ q.pc = "sending")
           => /\ q.payout[Len(q.payout)].net_amount > SOL \div 1000
              /\ q.payout[Len(q.payout)].net_amount
                    = net_amount(q.payout[Len(q.payout)].total_raised)
        /\ (/\ r.pc = "loop" /\ r.kind = "sweep" /\ r.todo /= <<>>
             /\ q /= r
             /\ creator_wallet[Head(r.todo)] /= None
             /\ net_amount(r.raised_sol[Head(r.todo)]) <= SOL \div 1000)
           => /\ q.pc = "loop"
              /\ q.todo = Tail(r.todo)
              /\ q.payout = r.payout
              /\ q.payout_status = r.payout_status
              /\ q.processed = r.processed
              /\ UNCHANGED <<payouts, transfers>>
        /\ (r.pc = "loop" /\ r.kind = "sweep" /\ q.pc = "idle"
                /\ presp'[w].call = "sweep")
           => \A p \in r.ended :
                net_amount(r.raised_sol[p]) <= SOL \div 1000
                => /\ PayoutsOf(payouts', p) = PayoutsOf(payouts, p)
                   /\ projects'[p].payout_status = projects[p].payout_status
                   /\ projects'[p].payout_status /= "failed"]_vars

\* C28 witness: a sweep over two campaigns whose creators have wallets has
\* committed: the one with net_amount 0.0009984 was rejected (no Payout
\* row, no transfer, still pending), the one with net_amount 0.0010023 was
\* taken to a transfer.
DustRejectedAboveSettled ==
    /\ preq["p1"].pc = "idle"
    /\ presp["p1"].call = "sweep"
    /\ creator_wallet[1] /= None
    /\ projects[1].raised_sol = 1024 * (SOL \div 1000000)
    /\ projects[1].status = "ended"
    /\ projects[1].payout_status = "pending"
    /\ PayoutsOf(payouts, 1) = {}
    /\ transfers[1] = 0
    /\ projects[2].raised_sol = 1028 * (SOL \div 1000000)
    /\ transfers[2] = 1
    /\ \E i \in PayoutsOf(payouts, 2) : payouts[i].status = "completed"

(***************************************************************************)
(* verify_transaction: claims                                              *)
(***************************************************************************)
\* C15: a transfer between the expected sender and recipient is accepted
\* if and only if its amount differs from expected_amount by at most
\* 0.000001 SOL (1000 lamports): 500 lamports off and exactly 1000
\* lamports off are accepted, 2000 lamports off is rejected.
AmountAcceptedWithinTolerance ==
    \A tx \in vt.tx :
        (/\ vt.pc = "idle"
         /\ tx.err = None
         /\ Len(tx.instructions) = 1
         /\ tx.instructions[1].program = "system"
         /\ tx.instructions[1].type = "transfer"
         /\ tx.instructions[1].source = vt.expected_sender
         /\ tx.instructions[1].destination = PLATFORM_WALLET_ADDRESS)
        => LET expected == vt.expected_amount_sol * (LAMPORTS_PER_SOL \div SOL)
               actual == tx.instructions[1].lamports
               diff == IF actual < expected THEN expected - actual
                       ELSE actual - expected
           IN  /\ vt.result.success <=> diff <= LAMPORTS_PER_SOL \div 1000000
               /\ diff = 500 => vt.result.success
               /\ diff = 1000 => vt.result.success
               /\ diff = 2000 => ~vt.result.success

\* C15 witness: a transfer exactly 0.000001 SOL above the expected amount
\* was accepted.
BoundaryAmountAccepted ==
    /\ vt.pc = "idle"
    /\ vt.result.success
    /\ \E tx \in vt.tx :
        /\ Len(tx.instructions) = 1
        /\ tx.instructions[1].lamports
                = vt.expected_amount_sol * (LAMPORTS_PER_SOL \div SOL) + 1000

PollLoopBoundedAndTerminates ==
    /\ [](/\ vt.polls <= 10
          /\ vt.waits <= 9
          /\ vt.waits <= vt.polls
          /\ (vt.pc \in {"parse", "idle"} /\ vt.polls > 0)
                => vt.waits = vt.polls - 1
          /\ vt.pc = "idle" => vt.last /= "sleep"
          /\ vt.tx /= {} => vt.pc \in {"parse", "idle"}
          /\ (vt.pc = "idle" /\ vt.tx = {} /\ vt.last = "poll")
                => /\ vt.polls = 10
                   /\ vt.result.error =
                        "Transaction not found or not confirmed after retries")
    /\ (vt.pc /= "idle") ~> (vt.pc = "idle")

\* C17 witness: ten polls came back empty, with nine waits between them,
\* and the call returned the not-found-after-retries error.
TenEmptyPolls ==
    /\ vt.pc = "idle"
    /\ vt.polls = 10
    /\ vt.waits = 9
    /\ vt.tx = {}
    /\ vt.result.error = "Transaction not found or not confirmed after retries"

(***************************************************************************)
(* Milestones: claims                                                      *)
(***************************************************************************)
\* C18: no operation changes a milestone's reached flag from true back to
\* false, and a reached milestone has reached_at set.
ReachedIsMonotonic ==
    [][\A m \in MilestoneIds :
        /\ milestones[m].reached => milestones'[m].reached
        /\ milestones'[m].reached => milestones'[m].reached_at /= NoTime]_vars

\* C18 witness: a milestone was reached and the creator then raised its
\* amount above what the campaign has raised; it is still reached.
ReachedMilestoneEditedUp ==
    \E m \in MilestoneIds :
        /\ milestones[m].reached
        /\ milestones[m].reached_at /= NoTime
        /\ milestones[m].amount_sol > projects[milestones[m].project_id].raised_sol

\* C29: at the step that records a contribution the campaign's raised_sol
\* grows by exactly the contribution's amount; every milestone of the
\* campaign with amount <= the new raised_sol is then reached with
\* reached_at set; an unreached milestone above the new raised_sol stays
\* unreached; and the newly reached set handed to notification is the set
\* of milestones whose flag changed in this step.
ContributionRecordedExactly ==
    [][\A d \in DonProcs :
        (dreq[d].pc = "ready" /\ dreq'[d].pc = "notifying")
        => LET p == dreq[d].project_id
               mine == {m \in MilestoneIds : milestones[m].project_id = p}
           IN  /\ projects'[p].raised_sol
                    = projects[p].raised_sol + dreq[d].amount_sol
               /\ \A m \in mine :
                    /\ milestones'[m].amount_sol <= projects'[p].raised_sol
                        => /\ milestones'[m].reached
                           /\ milestones'[m].reached_at /= NoTime
                    /\ (/\ ~milestones[m].reached
                         /\ milestones[m].amount_sol > projects'[p].raised_sol)
                        => ~milestones'[m].reached
               /\ dreq'[d].newly_reached_milestones =
                    {m \in MilestoneIds :
                        ~milestones[m].reached /\ milestones'[m].reached}]_vars

\* C30: notifications are dispatched only once the Donation is committed,
\* and whatever happens to them the Donation stays committed as confirmed,
\* no row changes, and the request returns success.
NotificationFailureKeepsOutcome ==
    /\ [](\A d \in DonProcs :
            dreq[d].pc = "notifying"
            => \E x \in donations :
                /\ x.tx_signature = dreq[d].tx_signature
                /\ x.status = "confirmed")
    /\ [][\A d \in DonProcs :
            (dreq[d].pc = "notifying" /\ dreq'[d].pc = "idle")
            => /\ UNCHANGED dbVars
               /\ dresp'[d] = "success"]_vars

\* the amounts of the recorded donations, in the order they were recorded
RECURSIVE RecordedAmounts(_)
RecordedAmounts(n) ==
    IF n = 0 THEN <<>>
    ELSE LET x == CHOOSE y \in donations : y.id = n
         IN  Append(RecordedAmounts(n - 1), x.amount_sol)

\* C19 as stated: with milestones at 10 and 20 units, after contributions
\* of 5 and 6 the 10-unit milestone is not yet reached, and after
\* [5, 6, 12] it is reached while the 20-unit milestone is still unreached.
TenReachedAfterThirdOnly ==
    LET recorded == RecordedAmounts(Cardinality(donations)) IN
    /\ recorded = <<5 * UNIT, 6 * UNIT>> => ~milestones[1].reached
    /\ recorded = <<5 * UNIT, 6 * UNIT, 12 * UNIT>>
            => milestones[1].reached /\ ~milestones[2].reached

\* C19 amended: with milestones at 10 and 20 units, recording [5, 6, 12]
\* leaves both unreached after the first contribution (raised 5), marks
\* the 10-unit milestone after the second (raised 11) and the 20-unit
\* milestone after the third (raised 23).
MilestonesFollowRunningTotal ==
    LET recorded == RecordedAmounts(Cardinality(donations)) IN
    /\ recorded = <<5 * UNIT>>
            => ~milestones[1].reached /\ ~milestones[2].reached
    /\ recorded = <<5 * UNIT, 6 * UNIT>>
            => milestones[1].reached /\ ~milestones[2].reached
    /\ recorded = <<5 * UNIT, 6 * UNIT, 12 * UNIT>>
            => milestones[1].reached /\ milestones[2].reached

\* C19 witness: the contributions 5, 6 and 12 have been recorded in this
\* order.
FiveSixTwelveRecorded ==
    /\ Cardinality(donations) = 3
    /\ RecordedAmounts(3) = <<5 * UNIT, 6 * UNIT, 12 * UNIT>>
    /\ projects[1].raised_sol = 23 * UNIT

(***************************************************************************)
(* Wallet authentication: claims                                           *)
(***************************************************************************)
\* C5: each issued challenge authenticates at most one wallet_verify
\* request: no two logins carry the same token.
TokenAuthenticatesOnce ==
    \A i, j \in DOMAIN logins : logins[i].nonce = logins[j].nonce => i = j

\* C6: wallet_verify logs wallet W in only if, when it checked, a stored
\* challenge issued for W with the submitted token existed, was unused and
\* unexpired (checked_at < expires_at), and the signature is W's signature
\* over that challenge's message.
LoginOnlyWithValidChallenge ==
    \A i \in DOMAIN logins :
        LET l == logins[i] IN
        /\ issued[l.nonce] = l.wallet_address
        /\ l.seen.nonce = l.nonce
        /\ l.seen.wallet_address = l.wallet_address
        /\ ~l.seen.used
        /\ l.checked_at < l.seen.expires_at
        /\ l.signature.signer = l.wallet_address
        /\ l.signature.msg = message_to_sign(l.nonce)

\* C6 witness: a login has happened, and a request was turned away while an
\* unused challenge past its expiry is stored.
LoginAndExpiredRejected ==
    /\ Len(logins) > 0
    /\ \E a \in AuthProcs : aresp[a] = "Invalid or expired nonce"
    /\ \E r \in wallet_nonces : ~r.used /\ now >= r.expires_at

\* C7: at most one valid (unused, unexpired) challenge is stored per wallet.
AtMostOneValidChallengePerWallet ==
    \A w \in Wallets :
        Cardinality({r \in wallet_nonces :
                        r.wallet_address = w /\ ~r.used /\ now < r.expires_at}) <= 1

=============================================================================
